---- MODULE Spec2Model ----
(***************************************************************************)
(* Model of the campus lost-and-found persistence layer (mongoService:     *)
(* src/unnamed/part_001 from line 63) and of the session shim              *)
(* (src/src/contexts/AuthContext.tsx).                                     *)
(*                                                                         *)
(* Strings the code inspects character by character (emails, item names,   *)
(* descriptions) are sequences of one-character strings; strings the code  *)
(* only copies or compares as a whole (passwords, user names, categories)  *)
(* are TLA+ strings.  Identifiers produced by generateId / insertedId are  *)
(* fresh naturals.  Timestamps are naturals read from a non-decreasing     *)
(* clock.  Item fields that no operation ever reads (location, date,       *)
(* imageUrl, userName, contactInfo) are left out of the item records.      *)
(* A stored document is the same record in both storage modes: the         *)
(* backend's _id.toString() is the record's id.                            *)
(***************************************************************************)
EXTENDS Integers, Sequences, FiniteSets, TLC

VARIABLES
    isBrowser,    \* part_001:68, TRUE = local-fallback mode, FALSE = backend mode
    users,        \* localStorage 'users' / backend collection users
    lostItems,    \* localStorage 'lostItems' / backend collection lostItems
    foundItems,   \* localStorage 'foundItems' / backend collection foundItems
    currentUser,  \* AuthContext.tsx:31, React state of AuthProvider
    campus_user,  \* localStorage 'campus_user': Null (key absent) or a text
    calls,        \* login / register calls suspended at an await
    now,          \* newest timestamp stored (new Date())
    nextUserId,   \* next fresh user identifier
    nextItemId,   \* next fresh item identifier
    last          \* operation completed last and what it returned or threw

vars == <<isBrowser, users, lostItems, foundItems, currentUser, campus_user,
          calls, now, nextUserId, nextItemId, last>>

authVars == <<users, currentUser, campus_user, calls, nextUserId>>
itemVars == <<lostItems, foundItems, now, nextItemId>>

----------------------------------------------------------------------------
(* Bounds of the model. *)
MaxItems == 2      \* createItem calls that reach the store
MaxUsers == 2      \* createUser calls that reach the store

(* JavaScript null / undefined. *)
Null == [null |-> TRUE]

(* new Error(message), thrown to the caller. *)
Error(msg) == [error |-> msg]

----------------------------------------------------------------------------
(* Strings as character sequences. *)

LowerChar(c) ==
    CASE c = "A" -> "a" [] c = "B" -> "b" [] c = "K" -> "k" [] c = "R" -> "r"
      [] OTHER -> c

ToLowerCase(s) == IF s = <<>> THEN <<>> ELSE [i \in 1..Len(s) |-> LowerChar(s[i])]

RECURSIVE SplitAcc(_, _, _)
SplitAcc(s, i, cur) ==
    IF i > Len(s) THEN <<cur>>
    ELSE IF s[i] = " " THEN <<cur>> \o SplitAcc(s, i + 1, <<>>)
    ELSE SplitAcc(s, i + 1, Append(cur, s[i]))

(* s.split(' ') *)
Split(s) == SplitAcc(s, 1, <<>>)

(* s.includes(w) *)
Includes(s, w) == \E k \in 0..(Len(s) - Len(w)) : SubSeq(s, k + 1, k + Len(w)) = w

(* Array.prototype.find: the first element with the id, or undefined. *)
FindById(items, id) ==
    IF \E i \in 1..Len(items) : items[i].id = id
    THEN items[CHOOSE i \in 1..Len(items) :
                   items[i].id = id /\ \A j \in 1..(i - 1) : items[j].id # id]
    ELSE Null

(* cursor.sort({ createdAt: -1 }): stable insertion into descending order. *)
RECURSIVE InsertDesc(_, _)
InsertDesc(sorted, x) ==
    IF sorted = <<>> THEN <<x>>
    ELSE IF Head(sorted).createdAt >= x.createdAt
         THEN <<Head(sorted)>> \o InsertDesc(Tail(sorted), x)
         ELSE <<x>> \o sorted

RECURSIVE SortDesc(_)
SortDesc(items) ==
    IF items = <<>> THEN <<>>
    ELSE InsertDesc(SortDesc(SubSeq(items, 1, Len(items) - 1)), items[Len(items)])

----------------------------------------------------------------------------
(* Inputs. *)

UserIds == {"u1", "u2"}
ItemTypes == {"lost", "found"}
ItemStatuses == {"searching", "resolved"}
ItemIds == 1..(MaxItems + 1)

(* ItemFormData samples: name, category, description. *)
FormRedBag == [name |-> <<"R", "e", "d", " ", "B", "a", "g">>, category |-> "Bags",
               description |-> <<>>]
FormBag == [name |-> <<"b", "a", "g">>, category |-> "Keys",
            description |-> <<"r", "e", "d">>]
FormKey == [name |-> <<"K", "e", "y">>, category |-> "Bags",
            description |-> <<"o", "l", "d">>]
Forms == {FormRedBag, FormBag, FormKey}

----------------------------------------------------------------------------
(* Data access layer: items. *)

(* The record createItem builds (part_001:187-201 and 222-235). *)
NewItem(form, type, userId, id, t) ==
    [id |-> id, name |-> form.name, category |-> form.category,
     description |-> form.description, userId |-> userId, createdAt |-> t,
     type |-> type, status |-> "searching"]

(* createItem storing the item in the collection of the other type. *)
CreateItemResult_OtherCollection(form, type, userId, dt, dt2, ok) ==
    LET newItem == NewItem(form, type, userId, nextItemId, now + dt)
    IN [ret |-> newItem,
        lostItems |-> IF type = "found" THEN Append(lostItems, newItem) ELSE lostItems,
        foundItems |-> IF type = "found" THEN foundItems
                       ELSE Append(foundItems, newItem)]

(* createItem(itemData, type, userId, userName): what it returns or throws
   and the collections it leaves.  dt tells whether the clock has advanced
   since the newest timestamp stored; dt2 whether it advances between the
   backend branch's two clock reads (part_001:232 and 242); ok tells whether
   the backend answered. *)
CreateItemResult(form, type, userId, dt, dt2, ok) ==
    LET newItem == NewItem(form, type, userId, nextItemId, now + dt)
        stored == [lostItems |-> IF type = "lost" THEN Append(lostItems, newItem)
                                 ELSE lostItems,
                   foundItems |-> IF type = "lost" THEN foundItems
                                  ELSE Append(foundItems, newItem)]
    IN IF isBrowser
       THEN [ret |-> newItem, lostItems |-> stored.lostItems,
             foundItems |-> stored.foundItems]
       ELSE IF ok
       THEN [ret |-> [newItem EXCEPT !.createdAt = now + dt + dt2],
             lostItems |-> stored.lostItems, foundItems |-> stored.foundItems]
       ELSE [ret |-> Error("Failed to create item"),
             lostItems |-> lostItems, foundItems |-> foundItems]

Threw(ret) == "error" \in DOMAIN ret

(* Timestamps are compared, never measured, so the clock is kept up to order:
   the first timestamp stored is 0 and each later one equals the newest
   timestamp stored or exceeds it by one.  now is the newest timestamp
   stored. *)
CreateItemCall(dt, dt2, ok) ==
    /\ nextItemId <= MaxItems
    /\ nextItemId = 1 => dt = 0
    /\ isBrowser => (ok /\ dt2 = 0)
    /\ (~isBrowser /\ ~ok) => (dt = 0 /\ dt2 = 0)

CreateItem(form, type, userId, dt, dt2, ok) ==
    /\ CreateItemCall(dt, dt2, ok)
    /\ LET r == CreateItemResult(form, type, userId, dt, dt2, ok)
       IN /\ lostItems' = r.lostItems
          /\ foundItems' = r.foundItems
          /\ nextItemId' = IF Threw(r.ret) THEN nextItemId ELSE nextItemId + 1
          /\ now' = IF Threw(r.ret) THEN now ELSE now + dt
    /\ UNCHANGED <<isBrowser, authVars, last>>

(* The contents of the two item collections; the read operations below take
   the contents they read as their first argument. *)
Storage == [lostItems |-> lostItems, foundItems |-> foundItems]

(* getLostItems() *)
GetLostItems(db, ok) ==
    IF isBrowser THEN db.lostItems
    ELSE IF ok THEN SortDesc(db.lostItems) ELSE <<>>

(* getFoundItems() *)
GetFoundItems(db, ok) ==
    IF isBrowser THEN db.foundItems
    ELSE IF ok THEN SortDesc(db.foundItems) ELSE <<>>

(* getItemById(id): lost collection first, then found. *)
GetItemById(db, id, ok) ==
    IF isBrowser \/ ok
    THEN LET item == FindById(db.lostItems, id)
         IN IF item = Null THEN FindById(db.foundItems, id) ELSE item
    ELSE Null

(* getUserItems(userId) *)
GetUserItems(db, userId, ok) ==
    LET Mine(item) == item.userId = userId
    IN IF isBrowser
       THEN SelectSeq(db.lostItems, Mine) \o SelectSeq(db.foundItems, Mine)
       ELSE IF ok
       THEN SortDesc(SelectSeq(db.lostItems, Mine))
                \o SortDesc(SelectSeq(db.foundItems, Mine))
       ELSE <<>>

(* items[itemIndex].status = status, for the first item with the id. *)
SetStatus(items, id, status) ==
    LET i == CHOOSE k \in 1..Len(items) :
                 items[k].id = id /\ \A j \in 1..(k - 1) : items[j].id # id
    IN [items EXCEPT ![i].status = status]

(* updateItemStatus setting the status of every item of the collection that
   holds the id. *)
UpdateItemStatusResult_WholeCollection(id, status, ok) ==
    LET All(items) == [k \in 1..Len(items) |-> [items[k] EXCEPT !.status = status]]
    IN IF FindById(lostItems, id) # Null
       THEN [ret |-> FindById(All(lostItems), id), lostItems |-> All(lostItems),
             foundItems |-> foundItems]
       ELSE IF FindById(foundItems, id) # Null
       THEN [ret |-> FindById(All(foundItems), id), lostItems |-> lostItems,
             foundItems |-> All(foundItems)]
       ELSE [ret |-> Null, lostItems |-> lostItems, foundItems |-> foundItems]

(* updateItemStatus(itemId, status): what it returns and the collections it
   leaves. *)
UpdateItemStatusResult(id, status, ok) ==
    IF ~isBrowser /\ ~ok
    THEN [ret |-> Null, lostItems |-> lostItems, foundItems |-> foundItems]
    ELSE IF FindById(lostItems, id) # Null
    THEN LET updated == SetStatus(lostItems, id, status)
         IN [ret |-> FindById(updated, id), lostItems |-> updated,
             foundItems |-> foundItems]
    ELSE IF FindById(foundItems, id) # Null
    THEN LET updated == SetStatus(foundItems, id, status)
         IN [ret |-> FindById(updated, id), lostItems |-> lostItems,
             foundItems |-> updated]
    ELSE [ret |-> Null, lostItems |-> lostItems, foundItems |-> foundItems]

UpdateItemStatus(id, status, ok) ==
    /\ isBrowser => ok
    /\ LET r == UpdateItemStatusResult(id, status, ok)
       IN /\ lostItems' = r.lostItems
          /\ foundItems' = r.foundItems
    /\ UNCHANGED <<isBrowser, authVars, now, nextItemId, last>>

(* items.filter(item => item.id !== itemId) *)
Without(items, id) ==
    LET Other(item) == item.id # id
    IN SelectSeq(items, Other)

(* deleteItem without the ownership test. *)
DeleteItemResult_NoOwnerCheck(id, userId, ok) ==
    IF FindById(lostItems, id) # Null
    THEN [ret |-> TRUE, lostItems |-> Without(lostItems, id), foundItems |-> foundItems]
    ELSE IF FindById(foundItems, id) # Null
    THEN [ret |-> TRUE, lostItems |-> lostItems, foundItems |-> Without(foundItems, id)]
    ELSE [ret |-> FALSE, lostItems |-> lostItems, foundItems |-> foundItems]

(* deleteItem(itemId, userId): what it returns and the collections it
   leaves.  The local branch answers false as soon as the lost collection
   holds the id under another owner (part_001:467-470); the backend branch
   queries by id and owner, so it goes on to the found collection. *)
DeleteItemResult(id, userId, ok) ==
    LET lostItem == FindById(lostItems, id)
        foundItem == FindById(foundItems, id)
        same == [lostItems |-> lostItems, foundItems |-> foundItems]
    IN IF ~isBrowser /\ ~ok
       THEN [ret |-> FALSE] @@ same
       ELSE IF lostItem # Null /\ lostItem.userId = userId
       THEN [ret |-> TRUE, lostItems |-> Without(lostItems, id),
             foundItems |-> foundItems]
       ELSE IF isBrowser /\ lostItem # Null
       THEN [ret |-> FALSE] @@ same
       ELSE IF foundItem # Null /\ foundItem.userId = userId
       THEN [ret |-> TRUE, lostItems |-> lostItems,
             foundItems |-> Without(foundItems, id)]
       ELSE [ret |-> FALSE] @@ same

DeleteItem(id, userId, ok) ==
    /\ isBrowser => ok
    /\ LET r == DeleteItemResult(id, userId, ok)
       IN /\ lostItems' = r.lostItems
          /\ foundItems' = r.foundItems
    /\ UNCHANGED <<isBrowser, authVars, now, nextItemId, last>>

(* The local-fallback filter of findPotentialMatches (part_001:534-558). *)
LocalMatch(item, potentialMatch) ==
    LET itemWords == Split(ToLowerCase(item.name))
        matchWords == Split(ToLowerCase(potentialMatch.name))
    IN IF potentialMatch.category = item.category THEN TRUE
       ELSE IF \E i \in 1..Len(itemWords) :
                   /\ Len(itemWords[i]) > 2
                   /\ \E j \in 1..Len(matchWords) : Includes(matchWords[j], itemWords[i])
       THEN TRUE
       ELSE IF item.description # <<>> /\ potentialMatch.description # <<>>
       THEN \E i \in 1..Len(itemWords) :
                /\ Len(itemWords[i]) > 2
                /\ Includes(ToLowerCase(potentialMatch.description), itemWords[i])
       ELSE FALSE

(* findPotentialMatches searching the item's own collection. *)
FindPotentialMatches_OwnCollection(db, id, ok) ==
    LET item == GetItemById(db, id, ok)
    IN IF item = Null THEN <<>>
       ELSE LET own == IF item.type = "lost" THEN db.lostItems ELSE db.foundItems
                SameCategory(m) == m.category = item.category
            IN SelectSeq(own, SameCategory)

(* findPotentialMatches(itemId) *)
FindPotentialMatches(db, id, ok) ==
    LET item == GetItemById(db, id, ok)
    IN IF item = Null THEN <<>>
       ELSE LET opposite == IF item.type = "lost" THEN db.foundItems
                            ELSE db.lostItems
                Local(m) == LocalMatch(item, m)
                SameCategory(m) == m.category = item.category
            IN IF isBrowser THEN SelectSeq(opposite, Local)
               ELSE IF ok THEN SelectSeq(opposite, SameCategory) ELSE <<>>

(* A findPotentialMatches(itemId) call: it changes no store; last records
   what it returned. *)
FindPotentialMatchesCall(id, ok) ==
    /\ isBrowser => ok
    /\ last' = [op |-> "findPotentialMatches",
                ret |-> FindPotentialMatches(Storage, id, ok)]
    /\ UNCHANGED <<isBrowser, authVars, itemVars>>

----------------------------------------------------------------------------
(* Data access layer: users. *)

EmailLower == <<"a", "@", "x">>
EmailUpper == <<"A", "@", "x">>
Emails == {EmailLower, EmailUpper}
Passwords == {"p1", "p2"}

(* (email, password, name) triples passed to register. *)
RegisterInputs ==
    {[email |-> EmailLower, password |-> "p1", name |-> "Ann"],
     [email |-> EmailUpper, password |-> "p2", name |-> "Bob"]}

(* Array.prototype.find / findOne: the first of the users at the matching
   indexes, or null. *)
FirstUser(matching) ==
    IF matching = {} THEN Null
    ELSE users[CHOOSE i \in matching : \A j \in matching : i <= j]

(* findUserByEmail(email): the local branch lower-cases both sides, the
   backend branch queries the stored email for the lower-cased argument. *)
FindUserByEmail(email, ok) ==
    IF isBrowser
    THEN FirstUser({i \in 1..Len(users) :
                       ToLowerCase(users[i].email) = ToLowerCase(email)})
    ELSE IF ok
    THEN FirstUser({i \in 1..Len(users) : users[i].email = ToLowerCase(email)})
    ELSE Null

(* createUser(email, password, name): what it returns or throws and the user
   store it leaves.  No uniqueness check. *)
CreateUserResult(email, password, name, ok) ==
    LET newUser == [id |-> nextUserId, email |-> email, name |-> name]
        stored == [id |-> nextUserId, email |-> email, name |-> name,
                   password |-> password]
    IN IF isBrowser \/ ok
       THEN [ret |-> newUser, users |-> Append(users, stored)]
       ELSE [ret |-> Error("Failed to create user"), users |-> users]

----------------------------------------------------------------------------
(* Session shim (AuthContext.tsx).  A login or register call is suspended at
   each await; calls[c] holds the locals of caller c's call in flight. *)

Callers == {"c1", "c2"}

Idle == [pc |-> "idle"]

(* isAuthenticated: !!currentUser *)
IsAuthenticated == currentUser # Null

(* const { password: _, ...userWithoutPassword } = user *)
WithoutPassword(user) == [f \in DOMAIN user \ {"password"} |-> user[f]]

(* Texts stored under a localStorage key.  [json |-> v] is the JSON text of
   the value v; [raw |-> s] is the text s, character by character, for texts
   that are not JSON. *)
Stringify(value) == [json |-> value]

(* The empty text and a text cut short: what a writer other than this code
   can leave under the key. *)
CorruptTexts == {[raw |-> <<>>], [raw |-> <<"{">>]}

(* JSON.parse(text): the value of a JSON text, a SyntaxError for any other
   text, the empty one included. *)
Parse(text) ==
    IF "json" \in DOMAIN text THEN text.json ELSE Error("SyntaxError")

(* if (storedUser): getItem answers null for an absent key, and the empty
   string is falsy as well. *)
Truthy(storedUser) == storedUser # Null /\ storedUser # [raw |-> <<>>]

(* login, up to the await of findUserByEmail.  The fields registered and
   answered are history only: whether some stored user had exactly this email
   and password when the lookup ran, and whether the backend answered. *)
LoginStart(c, email, password, ok) ==
    /\ calls[c].pc = "idle"
    /\ isBrowser => ok
    /\ calls' = [calls EXCEPT ![c] =
           [pc |-> "login_found", email |-> email, password |-> password,
            user |-> FindUserByEmail(email, ok),
            registered |-> \E i \in 1..Len(users) :
                               users[i].email = email /\ users[i].password = password,
            answered |-> ok]]
    /\ UNCHANGED <<isBrowser, itemVars, users, currentUser, campus_user,
                   nextUserId, last>>

(* login returning the stored record as it is, password included. *)
LoginResult_KeepsPassword(call) ==
    IF call.user = Null \/ call.user.password # call.password
    THEN Error("Invalid email or password")
    ELSE call.user

(* What login returns or throws once the lookup has answered. *)
LoginResult(call) ==
    IF call.user = Null \/ call.user.password # call.password
    THEN Error("Invalid email or password")
    ELSE WithoutPassword(call.user)

(* login, after the await. *)
LoginFinish(c) ==
    /\ calls[c].pc = "login_found"
    /\ LET ret == LoginResult(calls[c])
       IN /\ IF Threw(ret)
             THEN UNCHANGED <<currentUser, campus_user>>
             ELSE /\ currentUser' = ret
                  /\ campus_user' = Stringify(ret)
          /\ last' = [op |-> "login", ret |-> ret]
    /\ calls' = [calls EXCEPT ![c] = Idle]
    /\ UNCHANGED <<isBrowser, itemVars, users, nextUserId>>

(* register, up to the await of findUserByEmail.  registered: whether some
   stored user had exactly this email when the lookup ran. *)
RegisterStart(c, in, ok) ==
    /\ calls[c].pc = "idle"
    /\ isBrowser => ok
    /\ calls' = [calls EXCEPT ![c] =
           [pc |-> "register_found", email |-> in.email, password |-> in.password,
            name |-> in.name, existingUser |-> FindUserByEmail(in.email, ok),
            registered |-> \E i \in 1..Len(users) : users[i].email = in.email,
            answered |-> ok]]
    /\ UNCHANGED <<isBrowser, itemVars, users, currentUser, campus_user,
                   nextUserId, last>>

(* register between its two awaits: what the check and createUser yield. *)
RegisterCreateResult(call, ok) ==
    IF call.existingUser # Null
    THEN [ret |-> Error("Email already in use"), users |-> users]
    ELSE CreateUserResult(call.email, call.password, call.name, ok)

RegisterCreate(c, ok) ==
    /\ calls[c].pc = "register_found"
    /\ isBrowser => ok
    /\ LET r == RegisterCreateResult(calls[c], ok)
       IN IF Threw(r.ret)
          THEN /\ calls' = [calls EXCEPT ![c] = Idle]
               /\ last' = [op |-> "register", ret |-> r.ret]
               /\ UNCHANGED <<users, nextUserId>>
          ELSE /\ nextUserId <= MaxUsers
               /\ users' = r.users
               /\ nextUserId' = nextUserId + 1
               /\ calls' = [calls EXCEPT ![c] =
                      [pc |-> "register_created", email |-> calls[c].email,
                       name |-> calls[c].name, newUser |-> r.ret,
                       registered |-> calls[c].registered,
                       answered |-> calls[c].answered]]
               /\ UNCHANGED last
    /\ UNCHANGED <<isBrowser, itemVars, currentUser, campus_user>>

(* register, after the await of createUser. *)
RegisterFinish(c) ==
    /\ calls[c].pc = "register_created"
    /\ currentUser' = calls[c].newUser
    /\ campus_user' = Stringify(calls[c].newUser)
    /\ last' = [op |-> "register", ret |-> calls[c].newUser]
    /\ calls' = [calls EXCEPT ![c] = Idle]
    /\ UNCHANGED <<isBrowser, itemVars, users, nextUserId>>

(* logout() *)
Logout ==
    /\ currentUser' = Null
    /\ campus_user' = Null
    /\ last' = [op |-> "logout", ret |-> Null]
    /\ UNCHANGED <<isBrowser, itemVars, users, calls, nextUserId>>

(* What the mount effect of AuthProvider leaves, from a fresh React state
   (currentUser null): the session and the persisted text. *)
MountResult ==
    LET storedUser == campus_user
    IN IF Truthy(storedUser)
       THEN LET parsedUser == Parse(storedUser)
            IN IF Threw(parsedUser)
               THEN [currentUser |-> Null, campus_user |-> Null]
               ELSE [currentUser |-> parsedUser, campus_user |-> storedUser]
       ELSE [currentUser |-> Null, campus_user |-> storedUser]

(* Process start: the page is loaded again, so the calls in flight are gone
   with the old process, the stores persist, and the mount effect runs.  last
   records the session the mount has set. *)
Mount ==
    /\ calls' = [c \in Callers |-> Idle]
    /\ currentUser' = MountResult.currentUser
    /\ campus_user' = MountResult.campus_user
    /\ last' = [op |-> "mount", ret |-> MountResult.currentUser]
    /\ UNCHANGED <<isBrowser, itemVars, users, nextUserId>>

(* The environment of the catch at AuthContext.tsx:41-44: something other
   than this code leaves a text that is not JSON under the key. *)
StoredValueCorrupted(text) ==
    /\ campus_user' = text
    /\ UNCHANGED <<isBrowser, itemVars, users, currentUser, calls, nextUserId, last>>

----------------------------------------------------------------------------
Init ==
    /\ isBrowser \in BOOLEAN
    /\ users = <<>>
    /\ lostItems = <<>>
    /\ foundItems = <<>>
    /\ currentUser = Null
    /\ campus_user = Null
    /\ calls = [c \in Callers |-> Idle]
    /\ now = 0
    /\ nextUserId = 1
    /\ nextItemId = 1
    /\ last = [op |-> "none", ret |-> Null]

NextItems ==
    \/ \E form \in Forms, type \in ItemTypes, userId \in UserIds,
          dt \in 0..1, dt2 \in 0..1, ok \in BOOLEAN :
          CreateItem(form, type, userId, dt, dt2, ok)
    \/ \E id \in ItemIds, status \in ItemStatuses, ok \in BOOLEAN :
          UpdateItemStatus(id, status, ok)
    \/ \E id \in ItemIds, userId \in UserIds, ok \in BOOLEAN :
          DeleteItem(id, userId, ok)

NextAuth ==
    \/ \E c \in Callers, email \in Emails, password \in Passwords, ok \in BOOLEAN :
          LoginStart(c, email, password, ok)
    \/ \E c \in Callers : LoginFinish(c)
    \/ \E c \in Callers, in \in RegisterInputs, ok \in BOOLEAN :
          RegisterStart(c, in, ok)
    \/ \E c \in Callers, ok \in BOOLEAN : RegisterCreate(c, ok)
    \/ \E c \in Callers : RegisterFinish(c)
    \/ Logout
    \/ Mount
    \/ \E text \in CorruptTexts : StoredValueCorrupted(text)

(* The item operations alone: they take the user id as an argument and never
   read the user store or the session. *)
SpecItems == Init /\ [][NextItems]_vars

(* The session shim and the user store alone. *)
SpecAuth == Init /\ [][NextAuth]_vars

(* Names, categories and descriptions for the matching heuristic: names of
   one and two words, a word of two characters, upper and lower case, an
   empty description. *)
MatchNames ==
    {<<"R", "e", "d", " ", "B", "a", "g">>, <<"b", "a", "g">>, <<"K", "e", "y">>,
     <<"R", "e", " ", "k", "e">>}
MatchCategories == {"Bags", "Keys"}
MatchDescriptions ==
    {<<>>, <<"R", "e", "d">>, <<"o", "l", "d", " ", "k", "e", "y", "s">>}
MatchForms ==
    [name : MatchNames, category : MatchCategories, description : MatchDescriptions]

(* The stores after createItem(lostForm, 'lost', 'u1', ...) and then
   createItem(foundForm, 'found', 'u2', ...), for any two forms. *)
InitMatch ==
    /\ isBrowser \in BOOLEAN
    /\ users = <<>>
    /\ \E lostForm \in MatchForms, foundForm \in MatchForms :
           /\ lostItems = <<NewItem(lostForm, "lost", "u1", 1, 0)>>
           /\ foundItems = <<NewItem(foundForm, "found", "u2", 2, 0)>>
    /\ currentUser = Null
    /\ campus_user = Null
    /\ calls = [c \in Callers |-> Idle]
    /\ now = 0
    /\ nextUserId = 1
    /\ nextItemId = 3
    /\ last = [op |-> "none", ret |-> Null]

NextMatch ==
    \E id \in ItemIds, ok \in BOOLEAN : FindPotentialMatchesCall(id, ok)

(* findPotentialMatches alone, over stores holding one lost and one found
   item. *)
SpecMatch == InitMatch /\ [][NextMatch]_vars

----------------------------------------------------------------------------
(* Properties of the item operations, checked under SpecItems.  A read is
   taken with the backend answering (ok = TRUE); the contents an operation
   leaves are the lostItems and foundItems of its result. *)

Range(seq) == {seq[k] : k \in 1..Len(seq)}

(* Non-increasing createdAt. *)
Descending(seq) == \A k \in 1..(Len(seq) - 1) : seq[k].createdAt >= seq[k + 1].createdAt

StoredItems == Range(lostItems) \cup Range(foundItems)

(* The getter of the given type. *)
GetItemsOfType(db, type) ==
    IF type = "lost" THEN GetLostItems(db, TRUE) ELSE GetFoundItems(db, TRUE)

OtherType(type) == IF type = "lost" THEN "found" ELSE "lost"

C6_CreateItemCall ==
    \A form \in Forms, type \in ItemTypes, userId \in UserIds, dt \in 0..1, dt2 \in 0..1 :
        CreateItemCall(dt, dt2, TRUE) =>
        LET r == CreateItemResult(form, type, userId, dt, dt2, TRUE)
        IN /\ ~Threw(r.ret)
           /\ r.ret.status = "searching" /\ r.ret.type = type
           /\ \A old \in StoredItems : old.id # r.ret.id
           /\ \E k \in Range(GetItemsOfType(r, type)) :
                  k.id = r.ret.id /\ k.status = "searching" /\ k.type = type
           /\ \A k \in Range(GetItemsOfType(r, OtherType(type))) : k.id # r.ret.id

C6_OneCollectionByType ==
    /\ \A k \in Range(GetLostItems(Storage, TRUE)) :
           k.type = "lost" /\ \A f \in Range(GetFoundItems(Storage, TRUE)) : f.id # k.id
    /\ \A k \in Range(GetFoundItems(Storage, TRUE)) : k.type = "found"
    /\ Range(GetLostItems(Storage, TRUE)) \cup Range(GetFoundItems(Storage, TRUE))
           = StoredItems

(* C6: in every reachable state, a createItem call of type t that the
   store answers returns an item of status 'searching', type t and a fresh
   identifier, and on the contents it leaves the getter of type t holds that
   item and the getter of the other type does not; and each stored item is in
   exactly one collection, the one its type names. *)
C6_CreateItemInOwnCollection == C6_CreateItemCall /\ C6_OneCollectionByType

(* Both collections hold an item createItem stored, with status 'searching'. *)
C6_Witness ==
    /\ \E k \in Range(lostItems) : k.type = "lost" /\ k.status = "searching"
    /\ \E k \in Range(foundItems) : k.type = "found" /\ k.status = "searching"

(* C7: in every reachable state, deleteItem(id, owner) returns true and on
   the contents it leaves getItemById(id) is absent; deleteItem(id, another
   user) returns false and getItemById(id) still returns the item unchanged; in
   both collections; and getItemById of every other id returns what it
   returned before. *)
C7_DeleteOnlyByOwner ==
    \A id \in ItemIds, userId \in UserIds :
        LET item == GetItemById(Storage, id, TRUE)
            r == DeleteItemResult(id, userId, TRUE)
        IN /\ (item # Null /\ item.userId = userId) =>
                  (r.ret = TRUE /\ GetItemById(r, id, TRUE) = Null)
           /\ (item # Null /\ item.userId # userId) =>
                  (r.ret = FALSE /\ GetItemById(r, id, TRUE) = item)
           /\ \A other \in ItemIds \ {id} :
                  GetItemById(r, other, TRUE) = GetItemById(Storage, other, TRUE)

(* The first item created has been deleted by its owner; the second, stored
   in the found collection, is still there for its owner or another user to
   try. *)
C7_Witness ==
    /\ nextItemId > 2
    /\ GetItemById(Storage, 1, TRUE) = Null
    /\ FindById(foundItems, 2) # Null

(* C8: getLostItems() and getFoundItems() each return all items of their
   collection, most recently created first. *)
C8_GettersNewestFirst ==
    /\ Range(GetLostItems(Storage, TRUE)) = Range(lostItems)
    /\ Len(GetLostItems(Storage, TRUE)) = Len(lostItems)
    /\ Descending(GetLostItems(Storage, TRUE))
    /\ Range(GetFoundItems(Storage, TRUE)) = Range(foundItems)
    /\ Len(GetFoundItems(Storage, TRUE)) = Len(foundItems)
    /\ Descending(GetFoundItems(Storage, TRUE))

(* C9: getUserItems(u) returns exactly u's stored items: u's lost items,
   newest first, then u's found items, newest first. *)
C9_UserItemsLostThenFound ==
    \A userId \in UserIds :
        LET r == GetUserItems(Storage, userId, TRUE)
        IN /\ Range(r) = {k \in StoredItems : k.userId = userId}
           /\ Len(r) = Cardinality(Range(r))
           /\ \E n \in 0..Len(r) :
                  /\ \A k \in 1..n : r[k].type = "lost"
                  /\ \A k \in (n + 1)..Len(r) : r[k].type = "found"
                  /\ Descending(SubSeq(r, 1, n))
                  /\ Descending(SubSeq(r, n + 1, Len(r)))

(* C10: findPotentialMatches(id) of a stored item returns only items of the
   opposite collection, never the item or one of its own type, and every item
   of the opposite collection with the item's category; for an id in neither
   collection it returns the empty sequence. *)
C10_MatchesOppositeCategory ==
    \A id \in ItemIds :
        LET item == GetItemById(Storage, id, TRUE)
            r == FindPotentialMatches(Storage, id, TRUE)
        IN IF item = Null THEN r = <<>>
           ELSE LET opposite == IF item.type = "lost" THEN GetFoundItems(Storage, TRUE)
                                ELSE GetLostItems(Storage, TRUE)
                IN /\ \A m \in Range(r) :
                          m \in Range(opposite) /\ m.type # item.type /\ m.id # id
                   /\ \A m \in Range(opposite) :
                          m.category = item.category => m \in Range(r)

(* A lost and a found item of one category whose names share no word, each
   among the matches of the other. *)
C10_Witness ==
    \E s \in Range(lostItems), m \in Range(foundItems) :
        /\ s.category = m.category /\ s.name # m.name
        /\ ~\E i \in 1..Len(Split(ToLowerCase(s.name))) :
               Includes(ToLowerCase(m.name), Split(ToLowerCase(s.name))[i])
        /\ m \in Range(FindPotentialMatches(Storage, s.id, TRUE))
        /\ s \in Range(FindPotentialMatches(Storage, m.id, TRUE))

(* The items of r are those of items, position by position, but for the
   status of the item with the id. *)
OnlyStatusOf(items, r, id, status) ==
    /\ Len(r) = Len(items)
    /\ \A k \in 1..Len(items) :
           r[k] = IF items[k].id = id THEN [items[k] EXCEPT !.status = status]
                  ELSE items[k]

C13_UpdateItemStatusCall ==
    \A id \in ItemIds, status \in ItemStatuses :
        LET item == GetItemById(Storage, id, TRUE)
            r == UpdateItemStatusResult(id, status, TRUE)
        IN /\ OnlyStatusOf(lostItems, r.lostItems, id, status)
           /\ OnlyStatusOf(foundItems, r.foundItems, id, status)
           /\ item # Null =>
                  /\ r.ret = [item EXCEPT !.status = status]
                  /\ GetItemById(r, id, TRUE) = r.ret
           /\ item = Null =>
                  /\ r.ret = Null
                  /\ r.lostItems = lostItems /\ r.foundItems = foundItems

C13_Step ==
    /\ users' # users =>
           ~\E id \in ItemIds, status \in ItemStatuses, ok \in BOOLEAN :
                UpdateItemStatus(id, status, ok)
    /\ \A before \in StoredItems, after \in StoredItems' :
           (after.id = before.id /\ after # before) =>
               \E status \in ItemStatuses :
                   /\ UpdateItemStatus(before.id, status, TRUE)
                   /\ after = [before EXCEPT !.status = status]

(* C13: in every reachable state, an updateItemStatus(id, status) call the
   store answers, which names no caller, returns the stored item with the id
   with its status set to the given value and leaves both collections as they
   were but for that status, and for an id stored in neither collection
   returns the absent value and leaves both collections as they were; it
   leaves the users as they were; and a step that changes a field of an item
   stored before and after it is an updateItemStatus step for that item. *)
C13_UpdateItemStatusFrame == []C13_UpdateItemStatusCall /\ [][C13_Step]_vars

(* updateItemStatus has set one stored item to 'resolved' while an item of
   the other collection is still 'searching'. *)
C13_Witness ==
    \E k \in Range(lostItems), f \in Range(foundItems) :
        k.status # f.status

(* Some lower-cased space-separated word of s.name with more than 2 characters
   is a substring of some lower-cased word of c.name or of c's lower-cased
   description. *)
WordOverlap(s, c) ==
    \E w \in Range(Split(ToLowerCase(s.name))) :
        /\ Len(w) > 2
        /\ \/ \E m \in Range(Split(ToLowerCase(c.name))) : Includes(m, w)
           \/ Includes(ToLowerCase(c.description), w)

(* C14: in local-fallback mode, for a stored item s and a stored item c of
   the opposite type and another category, findPotentialMatches(s.id)
   includes c exactly when some lower-cased word of s.name with more than 2
   characters is a substring of some lower-cased word of c.name or of c's
   lower-cased description, whether or not s has a description. *)
C14_LocalWordOverlap ==
    isBrowser =>
        \A s \in StoredItems, c \in StoredItems :
            (c.type # s.type /\ c.category # s.category) =>
                (c \in Range(FindPotentialMatches(Storage, s.id, TRUE))
                    <=> WordOverlap(s, c))

(* Backend failures (ok = FALSE), in backend mode.  A call that fails is the
   one made with ok = FALSE; createItem reads no clock before it fails. *)
C11_CreateUserRaises ==
    \A in \in RegisterInputs :
        Threw(CreateUserResult(in.email, in.password, in.name, FALSE).ret)

C11_CreateItemRaises ==
    \A form \in Forms, type \in ItemTypes, userId \in UserIds :
        Threw(CreateItemResult(form, type, userId, 0, 0, FALSE).ret)

C11_UpdateItemStatusRaises ==
    \A id \in ItemIds, status \in ItemStatuses :
        Threw(UpdateItemStatusResult(id, status, FALSE).ret)

(* deleteItem answers a boolean when it does not throw; false is the answer
   it gives for an item it did not delete. *)
C11_DeleteItemRaises ==
    \A id \in ItemIds, userId \in UserIds :
        DeleteItemResult(id, userId, FALSE).ret # FALSE

C11_ReadsDegrade ==
    /\ \A email \in Emails : FindUserByEmail(email, FALSE) = Null
    /\ GetLostItems(Storage, FALSE) = <<>>
    /\ GetFoundItems(Storage, FALSE) = <<>>
    /\ \A id \in ItemIds : GetItemById(Storage, id, FALSE) = Null
    /\ \A userId \in UserIds : GetUserItems(Storage, userId, FALSE) = <<>>
    /\ \A id \in ItemIds : FindPotentialMatches(Storage, id, FALSE) = <<>>

(* C11: in backend mode, createUser, createItem, updateItemStatus and
   deleteItem each raise an error when the backend fails, and findUserByEmail,
   getLostItems, getFoundItems, getItemById, getUserItems and
   findPotentialMatches each return their empty or absent result without
   raising when the backend fails. *)
C11_BackendErrorPolicy ==
    ~isBrowser =>
        /\ C11_ReadsDegrade
        /\ C11_CreateUserRaises
        /\ C11_CreateItemRaises
        /\ C11_UpdateItemStatusRaises
        /\ C11_DeleteItemRaises

----------------------------------------------------------------------------
(* Properties of the session shim and the user store, checked under
   SpecAuth. *)

EqualsIgnoreCase(a, b) == ToLowerCase(a) = ToLowerCase(b)

C1_RegisterFinishStep ==
    \A c \in Callers, in \in RegisterInputs :
        ( /\ RegisterFinish(c)
          /\ calls[c].email = in.email /\ calls[c].name = in.name
          /\ \A i \in 1..Len(users) :
                 users[i].id # calls[c].newUser.id
                     => ~EqualsIgnoreCase(users[i].email, in.email) )
        => LET found == FindUserByEmail(in.email, TRUE)'
           IN found # Null /\ found.email = in.email /\ found.name = in.name

(* C1: when register(email, password, name) succeeds for an email no other
   stored user has (in any letter case), findUserByEmail(email) then returns
   a user with that email and name, in both storage modes. *)
C1_RegisterThenFind == [][C1_RegisterFinishStep]_vars

C2_RegisterCreateStep ==
    \A c \in Callers :
        ( /\ RegisterCreate(c, TRUE)
          /\ calls[c].registered /\ calls[c].answered )
        => /\ RegisterCreateResult(calls[c], TRUE).ret = Error("Email already in use")
           /\ users' = users
           /\ currentUser' = currentUser
           /\ campus_user' = campus_user

(* C2: a register call whose email belonged to a stored user when it was
   made, with the store answering every request of the call, raises 'Email
   already in use' and changes neither the user store nor the session. *)
C2_RegisterConflictNoChange == [][C2_RegisterCreateStep]_vars

(* C3: no two stored users have emails equal under case-insensitive
   comparison; stated for the local-fallback mode, where register calls that
   run one after the other cannot store such a pair, so only register calls
   that interleave at their awaits can. *)
C3_UniqueEmailsLocal ==
    isBrowser =>
        \A i, j \in 1..Len(users) :
            i # j => ~EqualsIgnoreCase(users[i].email, users[j].email)

C4_LoginFinishStep ==
    \A c \in Callers :
        (LoginFinish(c) /\ ~Threw(LoginResult(calls[c])))
        => LET ret == LoginResult(calls[c])
           IN /\ DOMAIN ret = {"id", "email", "name"}
              /\ \E i \in 1..Len(users) :
                     /\ users[i].id = ret.id /\ users[i].email = ret.email
                     /\ users[i].name = ret.name
                     /\ users[i].password = calls[c].password
              /\ IsAuthenticated'
              /\ currentUser' = ret
              /\ campus_user' = Stringify(ret)

C4_NoPasswordPersisted ==
    (campus_user # Null /\ ~Threw(Parse(campus_user)))
        => "password" \notin DOMAIN Parse(campus_user)

(* C4: a login that succeeds returns the id, email and name of a stored user
   and no password, leaves isAuthenticated true and persists that same object
   under campus_user; and the persisted value never holds a password. *)
C4_LoginReturnsUserWithoutPassword ==
    [][C4_LoginFinishStep]_vars /\ []C4_NoPasswordPersisted

(* A login has just succeeded and its user is the session, in memory and
   persisted. *)
C4_Witness ==
    /\ last.op = "login" /\ ~Threw(last.ret)
    /\ IsAuthenticated /\ currentUser = last.ret
    /\ campus_user = Stringify(last.ret)

C5_LoginFinishStep ==
    \A c \in Callers :
        (LoginFinish(c) /\ calls[c].answered)
        => LET ret == LoginResult(calls[c])
           IN /\ calls[c].registered => ~Threw(ret)
              /\ ~Threw(ret) =>
                     \E i \in 1..Len(users) :
                         /\ EqualsIgnoreCase(users[i].email, calls[c].email)
                         /\ users[i].password = calls[c].password
              /\ Threw(ret) =>
                     /\ ret = Error("Invalid email or password")
                     /\ currentUser' = currentUser
                     /\ campus_user' = campus_user

(* C5: a login whose lookup the store answered succeeds if a stored user had
   that email and that password when it was made, and only if some stored user
   has the email (in any letter case) and the password; otherwise it raises
   'Invalid email or password' and leaves the session as it was. *)
C5_LoginExactlyOnMatch == [][C5_LoginFinishStep]_vars

Quiescent == \A c \in Callers : calls[c].pc = "idle"

Unparseable(text) == text # Null /\ Threw(Parse(text))

C12_SessionAgrees ==
    (Quiescent /\ ~Unparseable(campus_user)) =>
        /\ currentUser = Null <=> campus_user = Null
        /\ campus_user # Null => currentUser = Parse(campus_user)

C12_LogoutStep == Logout => (currentUser' = Null /\ campus_user' = Null)

C12_MountStep ==
    Mount =>
        /\ Unparseable(campus_user) => (campus_user' = Null /\ currentUser' = Null)
        /\ (campus_user # Null /\ ~Unparseable(campus_user)) =>
               (currentUser' = Parse(campus_user) /\ campus_user' = campus_user)
        /\ campus_user = Null => (campus_user' = Null /\ currentUser' = Null)

(* C12: whenever no login or register call is in flight and the persisted
   text is one this code wrote, the session is anonymous exactly when the
   campus_user key is absent, and otherwise currentUser is the user stored
   under the key; logout leaves currentUser null and the key absent; a process
   start restores the stored user, and one that finds a text that does not
   parse removes the key and stays anonymous. *)
C12_SessionMatchesPersisted ==
    []C12_SessionAgrees /\ [][C12_LogoutStep /\ C12_MountStep]_vars

====
